---- MODULE Spec2Model ----
(***************************************************************************)
(* Model of the outbox event publisher (PrismaDomainEventPublisher), the  *)
(* version-checked student repository (PrismaStudentRepository.save) and  *)
(* the student use cases of fxavier/school-management-system.             *)
(*                                                                         *)
(* Time is a bounded integer clock; one clock unit stands for one         *)
(* baseBackoffMs-sized slice of wall-clock time.                           *)
(***************************************************************************)
EXTENDS Integers, Sequences, FiniteSets, TLC

VARIABLES
  rows,            \* outbox table: primary key -> row (only existing rows)
  nextId,          \* next primary key the store hands out (keys are never reused)
  now,             \* the clock (Date.now())
  isProcessing,    \* PrismaDomainEventPublisher.isProcessing
  processingTimer, \* TRUE iff PrismaDomainEventPublisher.processingTimer is set
  stopWaiting,     \* TRUE while a stop() call is in its wait loop
  cycles,          \* the running invocations of processOutboxEvents, by slot
  lastTrigger,     \* what the last call of processOutboxEventsAsync did
  fails,           \* history per primary key: failed attempts recorded since
                   \* the row was created or last reset by retryFailedEvents
  bo,              \* a series of failed attempts of one event: backoff delays
  student,         \* the stored row of one student: version and content
  writers,         \* concurrent read-modify-save runs on that student
  uc,              \* executions of the student use cases, by the event they emit
  ret,             \* the value the last call of a public method resolved to
  stopped,         \* TRUE from the return of stop() until the next start()
  timers,          \* the setInterval timers of the instance: how many are live,
                   \* and the start() calls since the last stop()
  scheduledAt,     \* per primary key: the scheduleTime its row was created with
  delivered,       \* per primary key: handler calls that resolved
  infra,           \* the infrastructure layer: its phase and the publisher
                   \* instances createDependencyConfig has constructed
  stu              \* one Student entity and the outcome of the last call on it

pubVars == <<rows, nextId, now, isProcessing, processingTimer, stopWaiting,
             cycles, lastTrigger, fails>>
saveVars == <<student, writers>>
vars == <<rows, nextId, now, isProcessing, processingTimer, stopWaiting,
          cycles, lastTrigger, fails, bo, student, writers, uc, ret, stopped,
          timers, scheduledAt, delivered, infra, stu>>
auxVars == <<timers, scheduledAt, delivered, infra, stu>>

----------------------------------------------------------------------------
(* Bounds of the model *)

MaxRowId == 2        \* number of rows the store ever creates
MaxTime == 1         \* the clock stops advancing here
MaxCycles == 2       \* slots for concurrently running poll cycles
MaxOptRetries == 1   \* largest options.retryPolicy.maxRetries a caller passes
CfgMaxRetries == 2   \* config.maxRetries of the instance under study
CfgBaseBackoff == 1  \* config.baseBackoffMs, in clock units
CfgMaxBackoff == 2   \* config.maxBackoffMs, in clock units
CfgBatchSize == 2    \* config.batchSize
MaxBase == 4         \* backoff study: largest baseBackoffMs
MaxCap == 6          \* backoff study: largest maxBackoffMs
MaxAttempts == 4     \* backoff study: length of a series of failures
MaxWriters == 2      \* concurrent read-modify-save runs on one student
MaxVersion == 4      \* no run starts once the stored version is this high

EventIds == {"e1", "e2"}
RowIds == 1..MaxRowId
Slots == 1..MaxCycles
Writers == 1..MaxWriters

NoTime == -1         \* publishedAt = null
NoOpt == -1          \* option not supplied (undefined)
NoError == "null"    \* lastError = null
ErrMsg == "error"    \* the message of a failure
UniqueErr == "Unique constraint failed"          \* insert of a taken eventId
AbortedErr == "current transaction is aborted"   \* statement after a failed one
TxErr == "Transaction failed"                    \* $transaction itself rejects
NotFoundErr == "Event not found or already published"

\* no public method has resolved yet; the shape of every returned value
NoCall ==
  [op |-> "none", success |-> FALSE, error |-> NoError, results |-> <<>>,
   totalEvents |-> 0, successCount |-> 0, failureCount |-> 0]

----------------------------------------------------------------------------
(* Pure helpers *)

Min(a, b) == IF a <= b THEN a ELSE b

RECURSIVE Pow2(_)
Pow2(n) == IF n <= 0 THEN 1 ELSE 2 * Pow2(n - 1)

\* Math.min(baseBackoffMs * Math.pow(2, retryCount), maxBackoffMs)
BackoffDelay_capless(base, cap, r) == base * Pow2(r)
BackoffDelay_next(base, cap, r) == Min(base * Pow2(r + 1), cap)
BackoffDelay(base, cap, r) == Min(base * Pow2(r), cap)

\* options?.retryPolicy?.maxRetries || this.config.maxRetries
EffectiveMaxRetries(m) == IF m = NoOpt \/ m = 0 THEN CfgMaxRetries ELSE m

\* the data of outboxEvent.create in publish
NewRow(e, m, sched) ==
  [eventId |-> e, published |-> FALSE, publishedAt |-> NoTime,
   retryCount |-> 0, maxRetries |-> EffectiveMaxRetries(m),
   scheduledFor |-> sched, lastError |-> NoError]

\* @unique on OutboxEvent.eventId
EventIdTaken(e) == \E id \in DOMAIN rows : rows[id].eventId = e

IdleCycle == [pc |-> "idle", batch |-> <<>>, i |-> 0, ok |-> FALSE]

Active(s) == cycles[s].pc # "idle"

----------------------------------------------------------------------------
(* processOutboxEventsAsync: the synchronous part, up to the first await *)

SingleFlightBusy_off == FALSE
SingleFlightBusy == isProcessing

FreeSlot(s) == ~Active(s) /\ \A t \in Slots : t < s => Active(t)

\* effect of one call of processOutboxEventsAsync on the publisher state
TriggerPoll ==
  IF SingleFlightBusy \/ ~\E s \in Slots : FreeSlot(s)
  THEN /\ lastTrigger' = "skipped"
       /\ UNCHANGED <<isProcessing, cycles>>
  ELSE /\ isProcessing' = TRUE
       /\ \E s \in Slots :
            /\ FreeSlot(s)
            /\ cycles' = [cycles EXCEPT ![s] = [IdleCycle EXCEPT !.pc = "fetch"]]
       /\ lastTrigger' = "started"

NoTrigger == UNCHANGED <<isProcessing, cycles, lastTrigger>>

----------------------------------------------------------------------------
(* Public operations of the publisher *)

\* publish(event, options)
Publish(e, m, immediate) ==
  /\ nextId <= MaxRowId
  /\ ~EventIdTaken(e)
  /\ rows' = [id \in DOMAIN rows \cup {nextId} |->
                IF id = nextId THEN NewRow(e, m, now) ELSE rows[id]]
  /\ nextId' = nextId + 1
  /\ IF immediate THEN TriggerPoll ELSE NoTrigger
  /\ UNCHANGED <<now, processingTimer, stopWaiting, fails>>

\* scheduleEvent(event, scheduleTime, options): the row is created with
\* scheduledFor = scheduleTime and no poll is triggered; scheduledAt keeps the
\* scheduleTime of the call
ScheduleEvent(e, m, scheduleTime) ==
  /\ nextId <= MaxRowId
  /\ ~EventIdTaken(e)
  /\ rows' = [id \in DOMAIN rows \cup {nextId} |->
                IF id = nextId THEN NewRow(e, m, scheduleTime) ELSE rows[id]]
  /\ nextId' = nextId + 1
  /\ scheduledAt' = [scheduledAt EXCEPT ![nextId] = scheduleTime]
  /\ NoTrigger
  /\ UNCHANGED <<now, processingTimer, stopWaiting, fails>>

\* publishBatch(events, options) for a batch whose inserts all succeed (no
\* eventId of the batch has a row yet): the rows, then one trigger
PublishBatch(es, m, immediate) ==
  /\ nextId + Len(es) - 1 <= MaxRowId
  /\ \A k \in DOMAIN es : ~EventIdTaken(es[k])
  /\ rows' = [id \in DOMAIN rows \cup (nextId..(nextId + Len(es) - 1)) |->
                IF id >= nextId THEN NewRow(es[id - nextId + 1], m, now)
                                ELSE rows[id]]
  /\ nextId' = nextId + Len(es)
  /\ IF immediate THEN TriggerPoll ELSE NoTrigger
  /\ UNCHANGED <<now, processingTimer, stopWaiting, fails>>

\* publish: the value returned after the insert, and the one of the catch block
PublishOk == [NoCall EXCEPT !.op = "publish", !.success = TRUE]
PublishFailed == [NoCall EXCEPT !.op = "publish", !.error = UniqueErr]

\* publish: outboxEvent.create rejects and the catch block returns
PublishFailure_trigger ==
  /\ ret' = PublishFailed
  /\ TriggerPoll
  /\ UNCHANGED <<rows, nextId, now, processingTimer, stopWaiting, fails>>
PublishFailure ==
  /\ ret' = PublishFailed
  /\ UNCHANGED pubVars

\* publish(event, options) with the value it resolves to; the insert fails when
\* the eventId already has a row (@unique)
PublishCall(e, m, immediate) ==
  IF EventIdTaken(e)
  THEN PublishFailure
  ELSE Publish(e, m, immediate) /\ ret' = PublishOk

\* publishBatch: the first event of the array whose insert fails (Len + 1 if none)
FirstFail(es) ==
  LET bad == {k \in DOMAIN es :
                \/ EventIdTaken(es[k])
                \/ \E j \in DOMAIN es : j < k /\ es[j] = es[k]}
  IN IF bad = {} THEN Len(es) + 1 ELSE CHOOSE k \in bad : \A j \in bad : k <= j

\* publishBatch: the entries the loop in the transaction callback pushes.  On
\* PostgreSQL a failed statement aborts the transaction, so every create after
\* the first failed one rejects too, and the inner catch records each of them.
LoopResults(es) ==
  [k \in DOMAIN es |->
     IF k < FirstFail(es)
     THEN [success |-> TRUE, eventId |-> es[k], error |-> NoError]
     ELSE [success |-> FALSE, eventId |-> es[k],
           error |-> IF k = FirstFail(es) THEN UniqueErr ELSE AbortedErr]]

\* publishBatch: the entries the outer catch block pushes
CatchResults(es) ==
  [k \in DOMAIN es |-> [success |-> FALSE, eventId |-> es[k], error |-> TxErr]]

\* publishBatch(events, options) with the value it resolves to.
\* tx is what $transaction does: "resolves" after the callback (the commit of
\* an aborted transaction being a rollback), "commitRejects" after the callback,
\* or "beginRejects" before the callback runs.
PublishBatchCall(es, m, immediate, tx) ==
  LET N == Len(es)
      ff == FirstFail(es)
      begins == tx # "beginRejects"
      commits == tx = "resolves"
  IN IF begins /\ commits /\ ff > N
     THEN /\ PublishBatch(es, m, immediate)
          /\ ret' = [NoCall EXCEPT !.op = "publishBatch", !.results = LoopResults(es),
                                    !.totalEvents = N, !.successCount = N]
     ELSE IF begins /\ commits
     THEN /\ IF immediate THEN TriggerPoll ELSE NoTrigger
          /\ ret' = [NoCall EXCEPT !.op = "publishBatch", !.results = LoopResults(es),
                                    !.totalEvents = N, !.successCount = ff - 1,
                                    !.failureCount = N - ff + 1]
          /\ UNCHANGED <<rows, nextId, now, processingTimer, stopWaiting, fails>>
     ELSE /\ ret' = [NoCall EXCEPT !.op = "publishBatch",
                        !.results = IF begins THEN LoopResults(es) \o CatchResults(es)
                                              ELSE CatchResults(es),
                        !.totalEvents = N, !.failureCount = N]
          /\ UNCHANGED pubVars

\* cancelScheduledEvent(eventId)
CancelWhere_anyRow(r, e) == r.eventId = e
CancelWhere(r, e) == r.eventId = e /\ ~r.published

CancelScheduledEvent(e) ==
  /\ \E id \in DOMAIN rows : CancelWhere(rows[id], e)
  /\ rows' = [id \in {x \in DOMAIN rows : ~CancelWhere(rows[x], e)} |-> rows[id]]
  /\ fails' = [id \in RowIds |->
                 IF id \in DOMAIN rows /\ CancelWhere(rows[id], e) THEN 0 ELSE fails[id]]
  /\ UNCHANGED <<nextId, now, isProcessing, processingTimer, stopWaiting,
                 cycles, lastTrigger>>

\* cancelScheduledEvent(eventId) with the value it resolves to
CancelCall(e) ==
  IF \E id \in DOMAIN rows : CancelWhere(rows[id], e)
  THEN /\ CancelScheduledEvent(e)
       /\ ret' = [NoCall EXCEPT !.op = "cancelScheduledEvent", !.success = TRUE]
  ELSE /\ ret' = [NoCall EXCEPT !.op = "cancelScheduledEvent", !.error = NotFoundErr]
       /\ UNCHANGED pubVars

\* retryFailedEvents(eventIds?): the where clause of updateMany
RetryWhere_anyRow(r, ids) == r.retryCount < CfgMaxRetries /\ r.eventId \in ids
RetryWhere(r, ids) ==
  ~r.published /\ r.retryCount < CfgMaxRetries /\ r.eventId \in ids

RetryFailedEvents(ids) ==
  /\ rows' = [id \in DOMAIN rows |->
                IF RetryWhere(rows[id], ids)
                THEN [rows[id] EXCEPT !.retryCount = 0, !.scheduledFor = now,
                                      !.lastError = NoError]
                ELSE rows[id]]
  /\ fails' = [id \in RowIds |->
                 IF id \in DOMAIN rows /\ RetryWhere(rows[id], ids)
                 THEN 0 ELSE fails[id]]
  /\ TriggerPoll
  /\ UNCHANGED <<nextId, now, processingTimer, stopWaiting>>

\* getFailedEvents(limit, offset): the where clause of findMany and of count
FailedWhere(r) == r.retryCount >= CfgMaxRetries /\ ~r.published

\* getFailedEvents() with a limit that covers the table: the rows it returns
GetFailedEvents == {id \in DOMAIN rows : FailedWhere(rows[id])}

\* start()
Start ==
  /\ ~processingTimer
  /\ processingTimer' = TRUE
  /\ UNCHANGED <<rows, nextId, now, isProcessing, stopWaiting, cycles,
                 lastTrigger, fails>>

\* stop(): clearInterval, then enter the wait loop
Stop ==
  /\ ~stopWaiting
  /\ processingTimer
  /\ processingTimer' = FALSE
  /\ stopWaiting' = TRUE
  /\ UNCHANGED <<rows, nextId, now, isProcessing, cycles, lastTrigger, fails>>

\* stop(): the wait loop sees isProcessing = false and stop() returns
StopReturn ==
  /\ stopWaiting
  /\ ~isProcessing
  /\ stopWaiting' = FALSE
  /\ UNCHANGED <<rows, nextId, now, isProcessing, processingTimer, cycles,
                 lastTrigger, fails>>

\* start() and the return of stop(), with the record of whether the publisher
\* is stopped: stop() has returned and start() was not called since it began
StartCall == Start /\ stopped' = FALSE

StopReturnCall == StopReturn /\ stopped' = ~processingTimer

\* start() called at any time, with the interval timers it leaves behind
MaxStarts == 2               \* start() calls between two stop() calls

AlreadyStarted_off == FALSE
AlreadyStarted == processingTimer

StartAnyTime ==
  /\ timers.starts < MaxStarts
  /\ IF AlreadyStarted
     THEN /\ timers' = [timers EXCEPT !.starts = @ + 1]
          /\ UNCHANGED processingTimer
     ELSE /\ timers' = [live |-> timers.live + 1, starts |-> timers.starts + 1]
          /\ processingTimer' = TRUE
  /\ UNCHANGED <<rows, nextId, now, isProcessing, stopWaiting, cycles,
                 lastTrigger, fails>>

\* stop(): clearInterval cancels the timer that processingTimer refers to
StopTimer == Stop /\ timers' = [live |-> timers.live - 1, starts |-> 0]

\* the callback of a live interval timer
IntervalTick ==
  /\ timers.live > 0
  /\ TriggerPoll
  /\ UNCHANGED <<rows, nextId, now, processingTimer, stopWaiting, fails>>

\* the setInterval callback installed by start()
TimerTick ==
  /\ processingTimer
  /\ TriggerPoll
  /\ UNCHANGED <<rows, nextId, now, processingTimer, stopWaiting, fails>>

\* wall-clock time passes
AdvanceClock ==
  /\ now < MaxTime
  /\ now' = now + 1
  /\ UNCHANGED <<rows, nextId, isProcessing, processingTimer, stopWaiting,
                 cycles, lastTrigger, fails>>

----------------------------------------------------------------------------
(* One poll cycle: processOutboxEvents and processOutboxEvent *)

\* the where clause of findMany in processOutboxEvents
DueWhere_lte(r, t) ==
  ~r.published /\ r.scheduledFor <= t /\ r.retryCount <= CfgMaxRetries
DueWhere(r, t) ==
  ~r.published /\ r.scheduledFor <= t /\ r.retryCount < CfgMaxRetries

DueSet(t) == {id \in DOMAIN rows : DueWhere(rows[id], t)}

\* the copy of a row that findMany hands to the loop
Snapshot(id) ==
  [id |-> id, eventId |-> rows[id].eventId, retryCount |-> rows[id].retryCount,
   maxRetries |-> rows[id].maxRetries]

\* orderBy scheduledFor asc, take batchSize: the possible results over DueSet(now)
\* (rows with equal scheduledFor come in an order the store chooses)
IsBatch(q) ==
  LET due == DueSet(now)
      ids == {q[k] : k \in DOMAIN q}
  IN /\ Len(q) = Min(CfgBatchSize, Cardinality(due))
     /\ ids \subseteq due
     /\ \A j, k \in DOMAIN q : j < k =>
          /\ q[j] # q[k]
          /\ rows[q[j]].scheduledFor <= rows[q[k]].scheduledFor
     /\ \A id \in due \ ids : \A k \in DOMAIN q :
          rows[q[k]].scheduledFor <= rows[id].scheduledFor

Batches ==
  {q \in UNION {[1..n -> RowIds] : n \in 0..Min(CfgBatchSize, MaxRowId)} : IsBatch(q)}

\* processOutboxEventsAsync: finally { this.isProcessing = false }
FinishCycle(s) ==
  /\ cycles' = [cycles EXCEPT ![s] = IdleCycle]
  /\ isProcessing' = FALSE

\* processOutboxEvents: the findMany and the empty-batch return
FetchBatch(s) ==
  /\ cycles[s].pc = "fetch"
  /\ \E q \in Batches :
       IF Len(q) = 0
       THEN FinishCycle(s)
       ELSE /\ cycles' = [cycles EXCEPT ![s] =
                 [pc |-> "handler", batch |-> [k \in DOMAIN q |-> Snapshot(q[k])],
                  i |-> 1, ok |-> FALSE]]
            /\ UNCHANGED isProcessing
  /\ UNCHANGED <<rows, nextId, now, processingTimer, stopWaiting, lastTrigger,
                 fails>>

\* processOutboxEvent: await handler(event); the handler resolves or rejects
CallHandler(s, ok) ==
  /\ cycles[s].pc = "handler"
  /\ cycles' = [cycles EXCEPT ![s].pc = "update", ![s].ok = ok]
  /\ UNCHANGED <<rows, nextId, now, isProcessing, processingTimer, stopWaiting,
                 lastTrigger, fails>>

\* processOutboxEvent: the data of the update after a successful delivery
MarkPublished_resetRetry(r, t) ==
  [r EXCEPT !.published = TRUE, !.publishedAt = t, !.retryCount = 0]
MarkPublished_notPublished(r, t) == [r EXCEPT !.publishedAt = t]
MarkPublished(r, t) == [r EXCEPT !.published = TRUE, !.publishedAt = t]

\* processOutboxEvent: the data of the update in the catch block; snap is the
\* copy of the row fetched by findMany
RecordFailure(r, snap, t) ==
  [r EXCEPT !.retryCount = snap.retryCount + 1,
            !.scheduledFor =
              t + BackoffDelay(CfgBaseBackoff, CfgMaxBackoff, snap.retryCount),
            !.lastError = ErrMsg]

\* the loop of processOutboxEvents moves to the next event, or the cycle ends
NextEvent(s) ==
  IF cycles[s].i < Len(cycles[s].batch)
  THEN /\ cycles' = [cycles EXCEPT ![s].pc = "handler", ![s].i = cycles[s].i + 1]
       /\ UNCHANGED isProcessing
  ELSE FinishCycle(s)

\* processOutboxEvent: the store update that records the outcome.  update()
\* rejects when no row has the primary key; in the try block that rejection
\* lands in the catch block, whose own update rejects the same way, and the
\* rejection leaves processOutboxEvent and ends the loop of processOutboxEvents.
RecordOutcome(s) ==
  /\ cycles[s].pc = "update"
  /\ LET snap == cycles[s].batch[cycles[s].i]
         id == snap.id
     IN IF id \in DOMAIN rows
        THEN /\ rows' = [rows EXCEPT ![id] =
                  IF cycles[s].ok THEN MarkPublished(rows[id], now)
                                  ELSE RecordFailure(rows[id], snap, now)]
             /\ fails' = [fails EXCEPT ![id] =
                  IF cycles[s].ok THEN @ ELSE @ + 1]
             /\ NextEvent(s)
        ELSE /\ FinishCycle(s)
             /\ UNCHANGED <<rows, fails>>
  /\ UNCHANGED <<nextId, now, processingTimer, stopWaiting, lastTrigger>>

----------------------------------------------------------------------------
(* A series of failed attempts of one event: the delays of the catch block *)

NoBackoffStudy == [base |-> 0, cap |-> 0, r |-> 0, delay |-> NoTime, prev |-> NoTime]

\* the catch block of processOutboxEvent on the next failure of the event:
\* the delay it adds to Date.now(), and the retryCount it stores
FailedAttempt ==
  /\ bo.base > 0
  /\ bo.r < MaxAttempts
  /\ bo' = [bo EXCEPT !.prev = bo.delay,
                      !.delay = BackoffDelay(bo.base, bo.cap, bo.r),
                      !.r = bo.r + 1]

----------------------------------------------------------------------------
(* PrismaStudentRepository.save, run by concurrent requests on one student *)

IdleWriter == [pc |-> "idle", version |-> 0, result |-> "none"]

\* findById and the changes made to the entity: the writer holds Student.version
LoadStudent(w) ==
  /\ writers[w].pc \in {"idle", "done"}
  /\ student.version < MaxVersion
  /\ writers' = [writers EXCEPT ![w] =
       [pc |-> "loaded", version |-> student.version, result |-> "none"]]
  /\ UNCHANGED student

\* save: the check existingStudent.version !== student.version
VersionConflict(existingVersion, entityVersion) == existingVersion # entityVersion

\* save: findFirst and the version check, which throws ConcurrencyError
SaveFind(w) ==
  /\ writers[w].pc = "loaded"
  /\ writers' = [writers EXCEPT ![w] =
       IF VersionConflict(student.version, writers[w].version)
       THEN [@ EXCEPT !.pc = "done", !.result = "ConcurrencyError"]
       ELSE [@ EXCEPT !.pc = "checked"]]
  /\ UNCHANGED student

\* save: student.update with version: student.version + 1
SaveUpdate(w) ==
  /\ writers[w].pc = "checked"
  /\ student' = [version |-> writers[w].version + 1, content |-> w]
  /\ writers' = [writers EXCEPT ![w].pc = "done", ![w].result = "ok"]

----------------------------------------------------------------------------
(* CreateStudentUseCase, GraduateStudentUseCase, UpdateStudentUseCase *)

UseCaseKinds == {"create", "graduate", "update"}

IdleUseCase ==
  [kind |-> "none", pc |-> "idle", changed |-> FALSE, committed |-> FALSE,
   result |-> "none"]

\* execute up to the save: validation and the changes to the entity; a failed
\* validation returns Failure.  changed: updatedFields.length > 0 (update only)
BeginUseCase(u, kind, valid, changed) ==
  /\ uc[u].pc = "idle"
  /\ kind # "update" => changed
  /\ uc' = [uc EXCEPT ![u] =
       IF valid
       THEN [IdleUseCase EXCEPT !.kind = kind, !.pc = "saving", !.changed = changed]
       ELSE [IdleUseCase EXCEPT !.kind = kind, !.pc = "done", !.result = "Failure"]]
  /\ UNCHANGED pubVars

\* await this.studentRepository.save(student): commits, or throws into the catch
SaveStudent(u, saved) ==
  /\ uc[u].pc = "saving"
  /\ uc' = [uc EXCEPT ![u] =
       IF saved THEN [@ EXCEPT !.pc = "publishing", !.committed = TRUE]
                ELSE [@ EXCEPT !.pc = "done", !.result = "Failure"]]
  /\ UNCHANGED pubVars

\* await this.eventPublisher.publish(event) and return Success(...): publish
\* resolves to success: false when the insert fails, and execute does not read it
PublishEvent(u, stored) ==
  /\ uc[u].pc = "publishing"
  /\ IF uc[u].changed /\ stored /\ ~EventIdTaken(u) /\ nextId <= MaxRowId
     THEN Publish(u, NoOpt, TRUE)
     ELSE UNCHANGED pubVars
  /\ uc' = [uc EXCEPT ![u].pc = "done", ![u].result = "Success"]

\* the process dies during execute
Crash(u) ==
  /\ uc[u].pc \in {"saving", "publishing"}
  /\ uc' = [uc EXCEPT ![u].pc = "crashed"]
  /\ UNCHANGED pubVars

\* the handler call with the count of the calls that resolved, per row
MaxDeliveries == 2           \* resolved handler calls followed per row

Deliver(s, ok) ==
  /\ CallHandler(s, ok)
  /\ LET id == cycles[s].batch[cycles[s].i].id
     IN /\ ok => delivered[id].n < MaxDeliveries
        /\ delivered' = [delivered EXCEPT ![id].n = IF ok THEN @ + 1 ELSE @]

\* processOutboxEvent when the store rejects the update that marks the row
\* published: the catch block runs with the fetched copy; its own update
\* either records a failure or rejects too, which ends the loop
MarkRejected(s, catchOk) ==
  /\ cycles[s].pc = "update"
  /\ cycles[s].ok
  /\ LET snap == cycles[s].batch[cycles[s].i]
         id == snap.id
     IN /\ id \in DOMAIN rows
        /\ delivered' = [delivered EXCEPT ![id].lost = @ + 1]
        /\ IF catchOk
           THEN /\ rows' = [rows EXCEPT ![id] = RecordFailure(rows[id], snap, now)]
                /\ fails' = [fails EXCEPT ![id] = @ + 1]
                /\ NextEvent(s)
           ELSE /\ FinishCycle(s)
                /\ UNCHANGED <<rows, fails>>
  /\ UNCHANGED <<nextId, now, processingTimer, stopWaiting, lastTrigger>>

----------------------------------------------------------------------------
(* The infrastructure layer (infrastructure/index.ts) *)

MaxInstances == 6            \* publishers constructed in one run
MaxPolls == 3                \* timer callbacks followed per publisher

\* createDependencyConfig: every call constructs a new publisher, whose
\* processingTimer is undefined
NewPublisher == [timer |-> FALSE, polls |-> 0]

CreateDependencyConfig == Append(infra.publishers, NewPublisher)

\* the publisher that shutdownInfrastructure calls stop() on
ShutdownTarget(ps) == Len(ps)

\* initializeInfrastructure(config): start() on the publisher of a new
\* dependency configuration when config.features.enableEventSourcing
InitializeInfrastructure(enableEventSourcing) ==
  /\ infra.pc # "up"
  /\ Len(infra.publishers) < MaxInstances
  /\ infra' =
       IF enableEventSourcing
       THEN LET ps == CreateDependencyConfig
            IN [pc |-> "up", enableEventSourcing |-> TRUE,
                publishers |-> [ps EXCEPT ![Len(ps)].timer = TRUE]]
       ELSE [infra EXCEPT !.pc = "up", !.enableEventSourcing = FALSE]

\* shutdownInfrastructure(config): stop() on the publisher of a new
\* dependency configuration; that publisher has no timer and is not
\* processing, so stop() returns at once
ShutdownInfrastructure ==
  /\ infra.pc = "up"
  /\ Len(infra.publishers) < MaxInstances
  /\ infra' =
       IF infra.enableEventSourcing
       THEN LET ps == CreateDependencyConfig
            IN [infra EXCEPT !.pc = "stopped",
                  !.publishers = [ps EXCEPT ![ShutdownTarget(ps)].timer = FALSE]]
       ELSE [infra EXCEPT !.pc = "stopped"]

\* the setInterval callback of publisher i triggers a poll
InstanceTick(i) ==
  /\ infra.publishers[i].timer
  /\ infra.publishers[i].polls < MaxPolls
  /\ infra' = [infra EXCEPT !.publishers[i].polls = @ + 1]

----------------------------------------------------------------------------
(* The Student entity (domain/entities/student.ts) *)

Statuses ==
  {"active", "inactive", "graduated", "transferred", "suspended", "expelled"}

\* names a caller passes: valid ones and ones of a single character
FirstNames == {"Ann", "Bo", "A"}
LastNames == {"Lee", "L"}
NameLength(n) ==
  CASE n = "Ann" -> 3 [] n = "Bo" -> 2 [] n = "A" -> 1 [] n = "Lee" -> 3
    [] n = "L" -> 1
Trim(n) == n                 \* none of the names has white space

NoValue == "undefined"       \* an optional field that is not set
\* email and phoneNumber a caller passes: both or neither
Contacts ==
  {[email |-> NoValue, phoneNumber |-> NoValue],
   [email |-> "ann@school", phoneNumber |-> "+15550100"]}
Addresses == {"Main St 1", "Oak Ave 2"}
MedicalInfos == {NoValue, "A+"}
GuardianEmails == {"g1@home", "g2@home"}
EnrollmentDate == 1          \* _enrollmentDate of the student under study
MaxDate == 2                 \* latest date passed to graduate
MaxGuardians == 2            \* addGuardian is not called beyond this many
MaxNotes == 1                \* lines appended to _notes

GuardianInfos == [email : GuardianEmails, isPrimaryContact : BOOLEAN]

PrimaryContacts(gs) == {k \in DOMAIN gs : gs[k].isPrimaryContact}

\* validate(): the checks on the fields the business methods write; the
\* checks on dateOfBirth, enrollmentDate and nationalId concern fields that
\* no method changes
Validate(s) ==
  /\ Trim(s.firstName) # "" /\ Trim(s.lastName) # ""
  /\ NameLength(s.firstName) >= 2 /\ NameLength(s.firstName) <= 50
  /\ NameLength(s.lastName) >= 2 /\ NameLength(s.lastName) <= 50
  /\ Len(s.guardians) # 0
  /\ Cardinality(PrimaryContacts(s.guardians)) = 1
  /\ s.graduationDate # NoTime => s.graduationDate > EnrollmentDate

\* the method assigned the fields of s1 and then ran validate()
AssignThenValidate(s1) == stu' = [s1 EXCEPT !.threw = ~Validate(s1)]

Throws == stu' = [stu EXCEPT !.threw = TRUE]

UpdatePersonalInfo(f, l, e, p) ==
  AssignThenValidate([stu EXCEPT !.firstName = f, !.lastName = l, !.email = e,
                                 !.phoneNumber = p])

UpdateAddress(a) == stu' = [stu EXCEPT !.address = a, !.threw = FALSE]

\* addGuardian: a primary newcomer takes the primary status from the others
AddGuardian(g) ==
  /\ Len(stu.guardians) < MaxGuardians
  /\ LET gs == IF g.isPrimaryContact
               THEN [k \in DOMAIN stu.guardians |->
                       [stu.guardians[k] EXCEPT !.isPrimaryContact = FALSE]]
               ELSE stu.guardians
     IN AssignThenValidate([stu EXCEPT !.guardians = Append(gs, g)])

\* this._guardians.filter(g => !g.email.equals(guardianEmail))
WithoutEmail(gs, e) == SelectSeq(gs, LAMBDA g : g.email # e)

RemoveGuardian(e) ==
  LET hits == {k \in DOMAIN stu.guardians : stu.guardians[k].email = e}
  IN IF hits = {}
     THEN Throws
     ELSE LET found == stu.guardians[CHOOSE k \in hits : \A j \in hits : k <= j]
          IN IF found.isPrimaryContact /\ Len(stu.guardians) = 1
             THEN Throws
             ELSE AssignThenValidate(
                    [stu EXCEPT !.guardians = WithoutEmail(stu.guardians, e)])

Suspend ==
  IF stu.status = "graduated"
  THEN Throws
  ELSE /\ stu.notes < MaxNotes
       /\ stu' = [stu EXCEPT !.status = "suspended", !.notes = @ + 1,
                             !.threw = FALSE]

Reactivate ==
  IF stu.status = "graduated"
  THEN Throws
  ELSE stu' = [stu EXCEPT !.status = "active", !.threw = FALSE]

\* graduate: the status test
GraduateAllowed_notGraduated(status) == status # "graduated"
GraduateAllowed(status) == status = "active"

Graduate(d) ==
  IF ~GraduateAllowed(stu.status) \/ d <= EnrollmentDate
  THEN Throws
  ELSE stu' = [stu EXCEPT !.status = "graduated", !.graduationDate = d,
                          !.threw = FALSE]

Transfer ==
  IF stu.status = "graduated"
  THEN Throws
  ELSE /\ stu.notes < MaxNotes
       /\ stu' = [stu EXCEPT !.status = "transferred", !.notes = @ + 1,
                             !.threw = FALSE]

UpdateMedicalInfo(m) == stu' = [stu EXCEPT !.medical = m, !.threw = FALSE]

AddNote ==
  /\ stu.notes < MaxNotes
  /\ stu' = [stu EXCEPT !.notes = @ + 1, !.threw = FALSE]

\* the arguments with which the private constructor returns
Students ==
  {s \in [status : Statuses, firstName : FirstNames, lastName : {"Lee"},
          email : {NoValue}, phoneNumber : {NoValue}, address : {"Main St 1"},
          guardians : UNION {[1..n -> GuardianInfos] : n \in 0..1},
          graduationDate : {NoTime} \cup 0..MaxDate, medical : {NoValue},
          notes : {0}, threw : {FALSE}] : Validate(s)}

DefaultStudent == CHOOSE s \in Students : s.status = "active"

----------------------------------------------------------------------------
(* The state machines *)

InitPublisher ==
  /\ rows = <<>>
  /\ nextId = 1
  /\ now = 0
  /\ isProcessing = FALSE
  /\ processingTimer = FALSE
  /\ stopWaiting = FALSE
  /\ cycles = [s \in Slots |-> IdleCycle]
  /\ lastTrigger = "none"
  /\ fails = [id \in RowIds |-> 0]

InitSave ==
  /\ student = [version |-> 1, content |-> 0]
  /\ writers = [w \in Writers |-> IdleWriter]

InitUseCases == uc = [u \in EventIds |-> IdleUseCase]

InitCalls == ret = NoCall /\ stopped = FALSE

NoTimers == [live |-> 0, starts |-> 0]

InfraDown == [pc |-> "down", enableEventSourcing |-> FALSE, publishers |-> <<>>]

NoDeliveries == [n |-> 0, lost |-> 0]

InitGhosts ==
  /\ timers = NoTimers
  /\ scheduledAt = [id \in RowIds |-> NoTime]
  /\ delivered = [id \in RowIds |-> NoDeliveries]
  /\ infra = InfraDown

InitAux == InitGhosts /\ stu = DefaultStudent

Init ==
  /\ InitPublisher /\ InitSave /\ InitUseCases /\ InitCalls /\ InitAux
  /\ bo = NoBackoffStudy

OptMaxRetries == {NoOpt} \cup 0..MaxOptRetries

\* the events arrays passed to publishBatch: non-empty, distinct events, in any order
EventBatches ==
  {es \in UNION {[1..n -> EventIds] : n \in 1..Cardinality(EventIds)} :
     \A j, k \in DOMAIN es : j # k => es[j] # es[k]}

TxOutcomes == {"resolves", "commitRejects", "beginRejects"}

nonPubVars == <<bo, student, writers, uc, ret, stopped, auxVars>>

Next ==
  \/ \E e \in EventIds, m \in OptMaxRetries, im \in BOOLEAN :
       Publish(e, m, im) /\ UNCHANGED nonPubVars
  \/ \E es \in EventBatches, m \in OptMaxRetries, im \in BOOLEAN :
       PublishBatch(es, m, im) /\ UNCHANGED nonPubVars
  \/ \E e \in EventIds : CancelScheduledEvent(e) /\ UNCHANGED nonPubVars
  \/ \E ids \in (SUBSET EventIds) \ {{}} :
       RetryFailedEvents(ids) /\ UNCHANGED nonPubVars
  \/ Start /\ UNCHANGED nonPubVars
  \/ Stop /\ UNCHANGED nonPubVars
  \/ StopReturn /\ UNCHANGED nonPubVars
  \/ TimerTick /\ UNCHANGED nonPubVars
  \/ AdvanceClock /\ UNCHANGED nonPubVars
  \/ \E s \in Slots : FetchBatch(s) /\ UNCHANGED nonPubVars
  \/ \E s \in Slots, ok \in BOOLEAN : CallHandler(s, ok) /\ UNCHANGED nonPubVars
  \/ \E s \in Slots : RecordOutcome(s) /\ UNCHANGED nonPubVars

Spec == Init /\ [][Next]_vars

\* a series of failures under every configuration of the bounds
InitBackoff ==
  /\ InitPublisher /\ InitSave /\ InitUseCases /\ InitCalls /\ InitAux
  /\ bo \in [base : 1..MaxBase, cap : 1..MaxCap, r : {0}, delay : {NoTime},
             prev : {NoTime}]

NextBackoff ==
  FailedAttempt /\ UNCHANGED <<pubVars, student, writers, uc, ret, stopped, auxVars>>

SpecBackoff == InitBackoff /\ [][NextBackoff]_vars

\* concurrent saves of one student
NextSave ==
  \/ \E w \in Writers : LoadStudent(w) /\ UNCHANGED <<pubVars, bo, uc, ret, stopped, auxVars>>
  \/ \E w \in Writers : SaveFind(w) /\ UNCHANGED <<pubVars, bo, uc, ret, stopped, auxVars>>
  \/ \E w \in Writers : SaveUpdate(w) /\ UNCHANGED <<pubVars, bo, uc, ret, stopped, auxVars>>

SpecSave == Init /\ [][NextSave]_vars

\* the use cases over the repository and the publisher
NextUseCase ==
  \/ \E u \in EventIds, k \in UseCaseKinds, v, c \in BOOLEAN :
       BeginUseCase(u, k, v, c) /\ UNCHANGED <<bo, student, writers, ret, stopped, auxVars>>
  \/ \E u \in EventIds, saved \in BOOLEAN :
       SaveStudent(u, saved) /\ UNCHANGED <<bo, student, writers, ret, stopped, auxVars>>
  \/ \E u \in EventIds, stored \in BOOLEAN :
       PublishEvent(u, stored) /\ UNCHANGED <<bo, student, writers, ret, stopped, auxVars>>
  \/ \E u \in EventIds : Crash(u) /\ UNCHANGED <<bo, student, writers, ret, stopped, auxVars>>
  \/ \E s \in Slots : FetchBatch(s) /\ UNCHANGED nonPubVars
  \/ \E s \in Slots, ok \in BOOLEAN : CallHandler(s, ok) /\ UNCHANGED nonPubVars
  \/ \E s \in Slots : RecordOutcome(s) /\ UNCHANGED nonPubVars

SpecUseCase == Init /\ [][NextUseCase]_vars

\* publish and cancelScheduledEvent with the values they resolve to, on a
\* publisher whose timer was never started, within one unit of the clock
callVars == <<bo, student, writers, uc, stopped, auxVars>>

NextCalls ==
  \/ \E e \in EventIds, m \in OptMaxRetries, im \in BOOLEAN :
       PublishCall(e, m, im) /\ UNCHANGED callVars
  \/ \E e \in EventIds : CancelCall(e) /\ UNCHANGED callVars
  \/ \E s \in Slots : FetchBatch(s) /\ UNCHANGED nonPubVars
  \/ \E s \in Slots, ok \in BOOLEAN : CallHandler(s, ok) /\ UNCHANGED nonPubVars
  \/ \E s \in Slots : RecordOutcome(s) /\ UNCHANGED nonPubVars

SpecCalls == Init /\ [][NextCalls]_vars

\* publishBatch with the value it resolves to, next to single publishes
NextBatch ==
  \/ \E e \in EventIds, m \in OptMaxRetries, im \in BOOLEAN :
       PublishCall(e, m, im) /\ UNCHANGED callVars
  \/ \E es \in EventBatches, m \in OptMaxRetries, im \in BOOLEAN :
       PublishBatchCall(es, m, im, "resolves") /\ UNCHANGED callVars
  \/ \E es \in EventBatches, tx \in TxOutcomes \ {"resolves"} :
       \* a rejected transaction reads none of the options
       PublishBatchCall(es, NoOpt, TRUE, tx) /\ UNCHANGED callVars
  \/ \E s \in Slots : FetchBatch(s) /\ UNCHANGED nonPubVars
  \/ \E s \in Slots, ok \in BOOLEAN : CallHandler(s, ok) /\ UNCHANGED nonPubVars
  \/ \E s \in Slots : RecordOutcome(s) /\ UNCHANGED nonPubVars

SpecBatch == Init /\ [][NextBatch]_vars

\* the life cycle of the background processor around publish calls
stopVars == <<bo, student, writers, uc, ret, auxVars>>

NextStop ==
  \/ \E e \in EventIds, im \in BOOLEAN :
       Publish(e, NoOpt, im) /\ UNCHANGED nonPubVars
  \/ StartCall /\ UNCHANGED stopVars
  \/ Stop /\ UNCHANGED nonPubVars
  \/ StopReturnCall /\ UNCHANGED stopVars
  \/ TimerTick /\ UNCHANGED nonPubVars
  \/ \E s \in Slots : FetchBatch(s) /\ UNCHANGED nonPubVars
  \/ \E s \in Slots, ok \in BOOLEAN : CallHandler(s, ok) /\ UNCHANGED nonPubVars
  \/ \E s \in Slots : RecordOutcome(s) /\ UNCHANGED nonPubVars

SpecStop == Init /\ [][NextStop]_vars

\* scheduleEvent among publish, retryFailedEvents, the timer and the clock
scheduleVars ==
  <<bo, student, writers, uc, ret, stopped, timers, delivered, infra, stu>>

NextSchedule ==
  \/ \E e \in EventIds, t \in 0..MaxTime :
       ScheduleEvent(e, NoOpt, t) /\ UNCHANGED scheduleVars
  \/ \E e \in EventIds, im \in BOOLEAN :
       Publish(e, NoOpt, im) /\ UNCHANGED nonPubVars
  \/ \E ids \in (SUBSET EventIds) \ {{}} :
       RetryFailedEvents(ids) /\ UNCHANGED nonPubVars
  \/ Start /\ UNCHANGED nonPubVars
  \/ TimerTick /\ UNCHANGED nonPubVars
  \/ AdvanceClock /\ UNCHANGED nonPubVars
  \/ \E s \in Slots : FetchBatch(s) /\ UNCHANGED nonPubVars
  \/ \E s \in Slots, ok \in BOOLEAN : CallHandler(s, ok) /\ UNCHANGED nonPubVars
  \/ \E s \in Slots : RecordOutcome(s) /\ UNCHANGED nonPubVars

SpecSchedule == Init /\ [][NextSchedule]_vars

\* one publisher instance whose store can reject the mark-published update;
\* polls are triggered by publish and retryFailedEvents
deliveryVars ==
  <<bo, student, writers, uc, ret, stopped, timers, scheduledAt, infra, stu>>

NextDelivery ==
  \/ \E e \in EventIds, im \in BOOLEAN :
       Publish(e, NoOpt, im) /\ UNCHANGED nonPubVars
  \/ \E e \in EventIds : CancelScheduledEvent(e) /\ UNCHANGED nonPubVars
  \/ \E ids \in (SUBSET EventIds) \ {{}} :
       RetryFailedEvents(ids) /\ UNCHANGED nonPubVars
  \/ \E s \in Slots : FetchBatch(s) /\ UNCHANGED nonPubVars
  \/ \E s \in Slots, ok \in BOOLEAN : Deliver(s, ok) /\ UNCHANGED deliveryVars
  \/ \E s \in Slots : RecordOutcome(s) /\ UNCHANGED nonPubVars
  \/ \E s \in Slots, catchOk \in BOOLEAN :
       MarkRejected(s, catchOk) /\ UNCHANGED deliveryVars

SpecDelivery == Init /\ [][NextDelivery]_vars

\* the infrastructure layer brought up and shut down
infraVars ==
  <<pubVars, bo, student, writers, uc, ret, stopped, timers, scheduledAt,
    delivered, stu>>

NextInfra ==
  \/ \E enableEventSourcing \in BOOLEAN :
       InitializeInfrastructure(enableEventSourcing) /\ UNCHANGED infraVars
  \/ ShutdownInfrastructure /\ UNCHANGED infraVars
  \/ \E i \in 1..MaxInstances :
       i <= Len(infra.publishers) /\ InstanceTick(i) /\ UNCHANGED infraVars

SpecInfra == Init /\ [][NextInfra]_vars

\* start() at any time, stop() and the callbacks of the live timers
timerVars ==
  <<bo, student, writers, uc, ret, stopped, scheduledAt, delivered, infra, stu>>

NextTimer ==
  \/ \E e \in EventIds, im \in BOOLEAN :
       Publish(e, NoOpt, im) /\ UNCHANGED nonPubVars
  \/ StartAnyTime /\ UNCHANGED timerVars
  \/ StopTimer /\ UNCHANGED timerVars
  \/ StopReturn /\ UNCHANGED nonPubVars
  \/ IntervalTick /\ UNCHANGED nonPubVars
  \/ \E s \in Slots : FetchBatch(s) /\ UNCHANGED nonPubVars
  \/ \E s \in Slots, ok \in BOOLEAN : CallHandler(s, ok) /\ UNCHANGED nonPubVars
  \/ \E s \in Slots : RecordOutcome(s) /\ UNCHANGED nonPubVars

SpecTimer == Init /\ [][NextTimer]_vars

\* the business methods called on one Student, from every valid construction
studentVars ==
  <<pubVars, bo, student, writers, uc, ret, stopped, timers, scheduledAt,
    delivered, infra>>

InitStudent ==
  /\ InitPublisher /\ InitSave /\ InitUseCases /\ InitCalls /\ InitGhosts
  /\ bo = NoBackoffStudy
  /\ stu \in Students

NextStudent ==
  \/ \E f \in FirstNames, l \in LastNames, c \in Contacts :
       UpdatePersonalInfo(f, l, c.email, c.phoneNumber)
       /\ UNCHANGED studentVars
  \/ \E a \in Addresses : UpdateAddress(a) /\ UNCHANGED studentVars
  \/ \E g \in GuardianInfos : AddGuardian(g) /\ UNCHANGED studentVars
  \/ \E e \in GuardianEmails : RemoveGuardian(e) /\ UNCHANGED studentVars
  \/ Suspend /\ UNCHANGED studentVars
  \/ Reactivate /\ UNCHANGED studentVars
  \/ \E d \in 0..MaxDate : Graduate(d) /\ UNCHANGED studentVars
  \/ Transfer /\ UNCHANGED studentVars
  \/ \E m \in MedicalInfos : UpdateMedicalInfo(m) /\ UNCHANGED studentVars
  \/ AddNote /\ UNCHANGED studentVars

SpecStudent == InitStudent /\ [][NextStudent]_vars

----------------------------------------------------------------------------
(* Properties *)

\* the slot s completes the store update of processOutboxEvent in this step
Recorded(s) == cycles[s].pc = "update" /\ cycles'[s] # cycles[s]

\* the fetched copy of the event the cycle in slot s is working on
Current(s) == cycles[s].batch[cycles[s].i]

InFlight(s) == cycles[s].pc \in {"handler", "update"}

\* the slot s invokes the handler of an event in this step: processOutboxEvent
\* is entered for the first event after the fetch, for a later one after the
\* store update of the event before it
Invoked(s) == cycles'[s].pc = "handler" /\ cycles'[s] # cycles[s]

AllTimes == 0..(MaxTime + CfgMaxBackoff)

\* C1: at most one poll cycle runs at any time, and while one is running no
\* trigger (timer tick, publish, retryFailedEvents) starts another: the
\* trigger is skipped and adds no cycle that would read the store or call a
\* handler.
C1_SingleFlight ==
  /\ [](Cardinality({s \in Slots : Active(s)}) <= 1)
  /\ [][(\E s \in Slots : Active(s)) =>
          \A s \in Slots : cycles[s].pc = "idle" => cycles'[s].pc = "idle"]_vars

\* C1 witness: a trigger was skipped and the running cycle is mid-event.
C1_Witness ==
  /\ lastTrigger = "skipped"
  /\ \E s \in Slots : cycles[s].pc = "update"

\* C2: a row is published exactly when publishedAt is set, and a published
\* row is never changed or deleted by any step.
C2_PublishedIsFinal ==
  /\ [](\A id \in DOMAIN rows :
          rows[id].published <=> rows[id].publishedAt # NoTime)
  /\ [][\A id \in DOMAIN rows :
          rows[id].published => id \in DOMAIN rows' /\ rows'[id] = rows[id]]_vars

\* C2 witness: a published row that carries retry bookkeeping from an earlier
\* failure, while another cycle is already running.
C2_Witness ==
  /\ \E id \in DOMAIN rows :
       /\ rows[id].published
       /\ rows[id].retryCount = 1
       /\ rows[id].lastError = ErrMsg
  /\ isProcessing

\* C3: a use case that reports success after committing a change to the
\* student has its event row in the outbox.
C3_EventStoredWithStudent ==
  \A u \in EventIds :
    (uc[u].result = "Success" /\ uc[u].committed /\ uc[u].changed)
      => EventIdTaken(u)

\* C4: of the saves that carry the same read version, at most one succeeds.
C4_SaveIsCompareAndSwap ==
  \A w1, w2 \in Writers :
    (w1 # w2 /\ writers[w1].result = "ok" /\ writers[w2].result = "ok")
      => writers[w1].version # writers[w2].version

\* C5: no tick hands a handler an event whose fetched retryCount has reached
\* the row's own maxRetries, so a row that only ever failed has at most
\* maxRetries failed attempts.
C5_OwnMaxRetriesRespected ==
  /\ \A s \in Slots : InFlight(s) => Current(s).retryCount < Current(s).maxRetries
  /\ \A id \in DOMAIN rows : fails[id] <= rows[id].maxRetries

\* C6: a row with the configured default maxRetries = N whose delivery has
\* failed N times since it was created (or since retryFailedEvents last reset
\* it) has retryCount = N, is unpublished, is in the due-set at no time, and
\* is not attempted again: it never collects a failure beyond the N-th.
C6_DeadAfterMaxRetries ==
  \A id \in DOMAIN rows :
    rows[id].maxRetries = CfgMaxRetries =>
      /\ fails[id] <= CfgMaxRetries
      /\ fails[id] = CfgMaxRetries =>
           /\ rows[id].retryCount = CfgMaxRetries
           /\ ~rows[id].published
           /\ \A t \in AllTimes : id \notin DueSet(t)
           /\ \A s \in Slots : InFlight(s) => Current(s).id # id

\* C6 witness: a default-maxRetries row after its N-th failed attempt, with a
\* later tick about to run its due-set query.
C6_Witness ==
  /\ \E id \in DOMAIN rows :
       /\ rows[id].maxRetries = CfgMaxRetries
       /\ fails[id] = CfgMaxRetries
  /\ \E s \in Slots : cycles[s].pc = "fetch"

C8_BackoffAfterIncrement ==
  [][\A s \in Slots :
       (Recorded(s) /\ ~cycles[s].ok /\ Current(s).id \in DOMAIN rows) =>
         LET id == Current(s).id IN
         /\ id \in DOMAIN rows'
         /\ rows'[id].retryCount = rows[id].retryCount + 1
         /\ rows'[id].scheduledFor =
              now + Min(CfgBaseBackoff * Pow2(rows'[id].retryCount), CfgMaxBackoff)
         /\ rows'[id].lastError = ErrMsg
         /\ ~rows'[id].published]_vars

\* C8 amended: the failure update stores the fetched retryCount plus one and
\* uses the fetched retryCount, the value before the increment, in the
\* exponent; lastError is the message and published stays false.
C8_BackoffBeforeIncrement ==
  [][\A s \in Slots :
       (Recorded(s) /\ ~cycles[s].ok /\ Current(s).id \in DOMAIN rows) =>
         LET id == Current(s).id
             r == Current(s).retryCount IN
         /\ id \in DOMAIN rows'
         /\ rows'[id].retryCount = r + 1
         /\ rows'[id].scheduledFor =
              now + Min(CfgBaseBackoff * Pow2(r), CfgMaxBackoff)
         /\ rows'[id].lastError = ErrMsg
         /\ ~rows'[id].published
         /\ rows'[id].publishedAt = NoTime]_vars

\* C8 witness: a row after its second failure, rescheduled by the delay of
\* exponent 1.
C8_Witness ==
  \E id \in DOMAIN rows :
    /\ rows[id].retryCount = 2
    /\ rows[id].lastError = ErrMsg
    /\ ~rows[id].published
    /\ rows[id].scheduledFor = 1 + Min(CfgBaseBackoff * 2, CfgMaxBackoff)

C10_BatchCompletes ==
  [][\A s \in Slots :
       (Recorded(s) /\ cycles[s].i < Len(cycles[s].batch)) =>
         /\ cycles'[s].pc = "handler"
         /\ cycles'[s].i = cycles[s].i + 1]_vars

\* C11: publishBatch is all-or-nothing: after a call on N events either a row
\* of every event of the batch was stored, or the store is unchanged and every
\* event of the batch is reported, every reported entry being a failure that
\* carries one and the same error.
C11_BatchAllOrNothing ==
  [][\A es \in EventBatches, m \in OptMaxRetries, im \in BOOLEAN,
        tx \in TxOutcomes :
       PublishBatchCall(es, m, im, tx) =>
         LET added == DOMAIN rows' \ DOMAIN rows
             stored == {k \in DOMAIN es :
                          \E id \in added : rows'[id].eventId = es[k]}
             res == ret'.results
         IN \/ stored = DOMAIN es
            \/ /\ stored = {}
               /\ rows' = rows
               /\ \A k \in DOMAIN es : \E j \in DOMAIN res : res[j].eventId = es[k]
               /\ \A j \in DOMAIN res :
                    ~res[j].success /\ res[j].error = res[1].error]_vars

\* C12: the value publishBatch resolves to on N events has exactly N entries,
\* the k-th for the k-th event, totalEvents = N = successCount + failureCount,
\* successCount counts the entries with success = true, and when the
\* transaction rejects every entry is a failure.
C12_BatchResultShape ==
  [][\A es \in EventBatches, m \in OptMaxRetries, im \in BOOLEAN,
        tx \in TxOutcomes :
       PublishBatchCall(es, m, im, tx) =>
         LET res == ret'.results IN
         /\ Len(res) = Len(es)
         /\ \A k \in DOMAIN res : res[k].eventId = es[k]
         /\ ret'.totalEvents = Len(es)
         /\ ret'.successCount + ret'.failureCount = ret'.totalEvents
         /\ ret'.successCount = Cardinality({k \in DOMAIN res : res[k].success})
         /\ tx # "resolves" => \A k \in DOMAIN res : ~res[k].success]_vars

\* C13: retryFailedEvents(ids) resets every targeted unpublished row whose
\* retryCount has reached its maxRetries (ids = all events: every such row):
\* after the call the row has retryCount = 0, scheduledFor = now and
\* lastError = null, and is in the due-set of the next tick.
C13_RetryReadmitsDead ==
  [][\A ids \in (SUBSET EventIds) \ {{}} :
       RetryFailedEvents(ids) =>
         \A id \in DOMAIN rows :
           (/\ ~rows[id].published
            /\ rows[id].eventId \in ids
            /\ rows[id].retryCount >= rows[id].maxRetries) =>
             /\ id \in DOMAIN rows'
             /\ rows'[id].retryCount = 0
             /\ rows'[id].scheduledFor = now
             /\ rows'[id].lastError = NoError
             /\ DueWhere(rows'[id], now)]_vars

\* C14: getFailedEvents lists exactly the dead-lettered events: an unpublished
\* row is returned if and only if its retryCount has reached its own
\* maxRetries.
C14_FailedAreTheDead ==
  \A id \in DOMAIN rows :
    ~rows[id].published =>
      (id \in GetFailedEvents <=> rows[id].retryCount >= rows[id].maxRetries)

C18_PublishFailureIsQuiet ==
  [][\A e \in EventIds, m \in OptMaxRetries, im \in BOOLEAN :
       (EventIdTaken(e) /\ PublishCall(e, m, im)) =>
         /\ ret'.op = "publish"
         /\ ~ret'.success
         /\ ret'.error = UniqueErr
         /\ rows' = rows
         /\ nextId' = nextId
         /\ cycles' = cycles
         /\ isProcessing' = isProcessing
         /\ lastTrigger' = lastTrigger]_vars

\* C18 witness: a publish has just failed while a row is due and no poll
\* cycle is running: a trigger would have started one.
C18_Witness ==
  /\ ret = PublishFailed
  /\ ~isProcessing
  /\ DueSet(now) # {}

\* C16: no handler is invoked for an event whose row a successful cancel has
\* deleted, and a deleted row does not come back.  Rows leave the store only
\* through a successful cancelScheduledEvent and primary keys are not reused,
\* so a fetched copy whose key is not in the store is a cancelled event.
C16_CancelledNeverDelivered ==
  /\ [][\A s \in Slots :
          Invoked(s) => cycles'[s].batch[cycles'[s].i].id \in DOMAIN rows]_vars
  /\ [][\A id \in 1..(nextId - 1) :
          id \notin DOMAIN rows => id \notin DOMAIN rows']_vars

\* C17: a successful publish(event, options) adds exactly one row, the only
\* one of event.eventId, with published = false, retryCount = 0,
\* scheduledFor = now, and maxRetries equal to options.retryPolicy.maxRetries
\* when that is supplied (0 included) and to config.maxRetries otherwise.
C17_StoredRowAsRequested ==
  [][\A e \in EventIds, m \in OptMaxRetries, im \in BOOLEAN :
       Publish(e, m, im) =>
         /\ DOMAIN rows' = DOMAIN rows \cup {nextId}
         /\ \A id \in DOMAIN rows : rows'[id] = rows[id] /\ rows[id].eventId # e
         /\ rows'[nextId].eventId = e
         /\ ~rows'[nextId].published
         /\ rows'[nextId].retryCount = 0
         /\ rows'[nextId].scheduledFor = now
         /\ rows'[nextId].maxRetries = IF m = NoOpt THEN CfgMaxRetries ELSE m]_vars

\* C19: while the publisher is stopped (stop() has returned, start() was not
\* called) no handler is invoked and no outcome is written to a row, whatever
\* calls follow the return.
C19_NoDispatchAfterStop ==
  [][stopped => \A s \in Slots : ~Invoked(s) /\ ~Recorded(s)]_vars

\* C20: stop() returns only when no tick is active, and a tick that ends
\* while stop() is waiting has either fetched nothing or written the outcome
\* of the last event it fetched, the events before it having been completed
\* in their turn.
C20_StopWaitsForWholeTick ==
  /\ [][(stopWaiting /\ ~stopWaiting') => \A s \in Slots : ~Active(s)]_vars
  /\ [][\A s \in Slots :
          (stopWaiting /\ Active(s) /\ cycles'[s].pc = "idle") =>
            \/ cycles[s].pc = "fetch"
            \/ cycles[s].pc = "update" /\ cycles[s].i = Len(cycles[s].batch)]_vars

\* C21: however often start() is called, exactly one interval timer is live
\* while the publisher is started, so an interval brings at most one timer
\* callback, and none is live once stop() has cleared it.
C21_StartIsIdempotent == timers.live = IF processingTimer THEN 1 ELSE 0

\* start() has been called twice with no stop() between
C21_Witness == timers.starts = 2 /\ timers.live = 1

\* C22: no tick holds, and so none dispatches, an event that scheduleEvent
\* stored for a time that has not come yet.
C22_NotBeforeScheduleTime ==
  \A s \in Slots : \A k \in DOMAIN cycles[s].batch :
    scheduledAt[cycles[s].batch[k].id] <= now

\* C23: from one state to the next the retryCount of a row goes down only in
\* a step of retryFailedEvents.
C23_RetryCountOnlyResetByRetry ==
  [][\A id \in DOMAIN rows \cap DOMAIN rows' :
       rows'[id].retryCount < rows[id].retryCount =>
         \E ids \in (SUBSET EventIds) \ {{}} : RetryFailedEvents(ids)]_vars

\* retryFailedEvents has reset a row that a tick holds a copy of: the stored
\* count is below the one the tick fetched
C23_Witness ==
  \E s \in Slots :
    /\ InFlight(s)
    /\ Current(s).id \in DOMAIN rows
    /\ rows[Current(s).id].retryCount < Current(s).retryCount

\* C27: a failure write raises the stored retryCount by exactly one over the
\* value the row has in the store when the write is made.
C27_FailureAddsOneToStored ==
  [][\A s \in Slots :
       (Recorded(s) /\ ~cycles[s].ok /\ Current(s).id \in DOMAIN rows) =>
         rows'[Current(s).id].retryCount = rows[Current(s).id].retryCount + 1]_vars

\* C28 as stated: a handler call resolves at most once per row, also when
\* the update that marks the row published fails.
C28_DeliveredAtMostOnce == \A id \in RowIds : delivered[id].n <= 1

\* C28 as amended: a handler call resolves again for a row only after the
\* update that marks the row published was rejected, once for each rejection.
C28_RedeliveredOnlyAfterLostMark ==
  \A id \in RowIds : delivered[id].n <= 1 + delivered[id].lost

\* a handler call resolved twice for a row whose mark was rejected once
C28_Witness == \E id \in RowIds : delivered[id].n = 2 /\ delivered[id].lost = 1

\* C29: once shutdownInfrastructure has returned, no publisher constructed
\* so far has a live timer (so none triggers a poll).
C29_ShutdownStopsPoller ==
  infra.pc = "stopped" =>
    \A i \in DOMAIN infra.publishers : ~infra.publishers[i].timer

----------------------------------------------------------------------------
(* The Student entity *)

\* every field of the entity but the outcome of the call is as it was
SameStudent == [stu' EXCEPT !.threw = stu.threw] = stu

StatusCalls == (\E d \in 0..MaxDate : Graduate(d)) \/ Suspend \/ Reactivate \/ Transfer

\* C24: graduate(date) succeeds exactly on an ACTIVE student with a date
\* after the enrollment date and then sets GRADUATED and graduationDate, and
\* otherwise throws; on a GRADUATED student graduate, suspend, reactivate and
\* transfer throw and leave status and graduationDate alone, and no method
\* leaves GRADUATED; suspend and reactivate on any other status set SUSPENDED
\* and ACTIVE.
C24_StatusTransitions ==
  [][/\ \A d \in 0..MaxDate :
          Graduate(d) =>
            IF stu.status = "active" /\ d > EnrollmentDate
            THEN /\ stu'.status = "graduated" /\ stu'.graduationDate = d
                 /\ ~stu'.threw
            ELSE stu'.threw /\ SameStudent
     /\ (stu.status = "graduated" /\ StatusCalls) =>
          /\ stu'.threw
          /\ stu'.status = "graduated"
          /\ stu'.graduationDate = stu.graduationDate
     /\ stu.status = "graduated" => stu'.status = "graduated"
     /\ (stu.status # "graduated" /\ Suspend) =>
          stu'.status = "suspended" /\ ~stu'.threw
     /\ (stu.status # "graduated" /\ Reactivate) =>
          stu'.status = "active" /\ ~stu'.threw]_vars

\* a call on a student that graduate(MaxDate) has graduated threw
C24_Witness ==
  /\ stu.status = "graduated" /\ stu.graduationDate = MaxDate /\ stu.threw
  /\ stu.notes > 0

\* C25: no call on a GRADUATED student changes any of its fields.
C25_GraduatedIsFrozen == [][stu.status = "graduated" => SameStudent]_vars

\* C26: the student has at least one guardian and exactly one of its
\* guardians is the primary contact.
C26_OnePrimaryGuardian ==
  Len(stu.guardians) >= 1 /\ Cardinality(PrimaryContacts(stu.guardians)) = 1

\* C30: a call that throws leaves every field of the student as it was.
C30_ThrowLeavesUnchanged == [][stu'.threw => SameStudent]_vars

====
